---- MODULE Spec2Model ----
(***************************************************************************)
(* Model of the multi-file document store of script.js and of the GitHub   *)
(* synchronisation engine of src/github/github-integration.js.             *)
(*                                                                         *)
(* JavaScript strings are sequences of code points.  The `files` object is *)
(* a sequence of documents in property order: its keys are Date.now()      *)
(* values, far above 2^32 - 2, so they are ordinary string keys and        *)
(* Object.keys / Object.entries list them in insertion order.              *)
(***************************************************************************)
EXTENDS Naturals, Integers, Sequences, FiniteSets, TLC

VARIABLES
    files,          \* script.js:110  documents, in property (insertion) order
    activeFileId,   \* script.js:111  id of the active document, or Null
    markdownInput,  \* markdownInput.value, the editor buffer
    op,             \* the last store operation and its arguments
    ret,            \* the value the last store operation returned
    remote,         \* the repository branch: path -> file, as the server holds it
    http,           \* the last request the server answered, and its response
    syncPc,         \* syncToGitHub: "idle", "read", "write", "done" or "thrown"
    syncEntries,    \* Object.entries(localFiles), taken when the loop starts
    syncIndex,      \* position of the loop in syncEntries
    syncOverwrite,  \* the `overwrite` argument
    syncFileName,   \* `fileName` of the current iteration
    syncSha,        \* `sha` of the current iteration
    syncRequest,    \* the request of syncToGitHub that is in flight
    results,        \* `results` of syncToGitHub
    syncOther,      \* a second invocation of syncToGitHub, as one record
    loadPc,         \* loadFromGitHub: "idle", "listing", "read", "done" or "thrown"
    markdownFiles,  \* the listing loadFromGitHub iterates over
    loadIndex,      \* position of the loop in markdownFiles
    loadRequest,    \* the request of loadFromGitHub that is in flight
    loadResults,    \* `results` of loadFromGitHub
    loadCalls,      \* the fileData passed to fileProcessor by this invocation
    sanitizeCalls,  \* a name, and the results of sanitizeFileName applied to it in turn
    loadBefore,     \* the store and the results the Load before this one left, if any
    listeners,      \* click listeners on the Sync button: one per opening of the modal
    localStorage,   \* the items markdownFiles, markdownActiveFileId, markdownInputContent
    saveTimer,      \* debouncedSaveInput: time left of the pending timeout, or Null
    token,          \* githubAPI.token is set
    repository      \* githubAPI.repoOwner and githubAPI.repoName are set

storeVars == <<files, activeFileId, markdownInput, op, ret>>
syncVars == <<syncPc, syncEntries, syncIndex, syncOverwrite, syncFileName, syncSha,
              syncRequest, results, syncOther>>
loadVars == <<loadPc, markdownFiles, loadIndex, loadRequest, loadResults, loadCalls>>
pureVars == <<sanitizeCalls, loadBefore, listeners>>
persistVars == <<localStorage, saveTimer>>
configVars == <<token, repository>>
vars == <<storeVars, remote, http, syncVars, loadVars, pureVars, persistVars, configVars>>

----------------------------------------------------------------------------
(* Bounds of the model *)

MaxFiles == 2       \* documents the store may hold before creation is cut off
MaxClock == 1       \* Date.now() ranges over 1..MaxClock

Clock == 1..MaxClock
Ids == 1..(MaxClock + MaxFiles - 1)    \* every id the store can come to hold

----------------------------------------------------------------------------
(* JavaScript values *)

Null == 0                                   \* `null`: falsy, never a document id
NoneBefore == [taken |-> FALSE]             \* no Load has returned before this one
NaN == -1                                   \* `NaN`: falsy, never a document id
Truthy(n) == n # Null /\ n # NaN
Undefined == [t |-> "undefined", v |-> 0]
JsFalse == [t |-> "boolean", v |-> 0]
JsNumber(n) == [t |-> "number", v |-> n]

EmptyString == << >>
NewFileName == <<78, 101, 119, 32, 70, 105, 108, 101>>      \* "New File"
NameTodo == <<116, 111, 100, 111>>                           \* "todo"
DotMd == <<46, 109, 100>>                                    \* ".md"
TextX == <<120>>                                             \* "x"

StoreNames == {NewFileName, NameTodo}
StoreContents == {EmptyString, TextX}

----------------------------------------------------------------------------
(* The `files` object *)

Keys(f) == [i \in 1..Len(f) |-> f[i].id]
KeySet(f) == {f[i].id : i \in 1..Len(f)}
Has(f, id) == id \in KeySet(f)
IndexOf(f, id) == CHOOSE i \in 1..Len(f) : f[i].id = id
Get(f, id) == f[IndexOf(f, id)]
Put(f, doc) ==
    IF Has(f, doc.id) THEN [f EXCEPT ![IndexOf(f, doc.id)] = doc]
    ELSE Append(f, doc)
Delete(f, id) == SelectSeq(f, LAMBDA d : d.id # id)
SetContent(f, id, content) == [f EXCEPT ![IndexOf(f, id)].content = content]
SetName(f, id, name) == [f EXCEPT ![IndexOf(f, id)].name = name]

Store(f, a, m) == [files |-> f, activeFileId |-> a, markdownInput |-> m]

----------------------------------------------------------------------------
(* File management functions of script.js *)

\* Mutant: the collision loop of generateUniqueFileId is missing.
generateUniqueFileIdNoLoop(f, now) == now

RECURSIVE generateUniqueFileId(_, _)
generateUniqueFileId(f, now) ==
    IF Has(f, now) THEN generateUniqueFileId(f, now + 1) ELSE now

createNewFile(st, name, content, now) ==
    LET id == generateUniqueFileId(st.files, now)
        fileName == IF name = EmptyString THEN NewFileName ELSE name  \* name || 'New File'
    IN  [st EXCEPT !.files = Put(st.files, [id |-> id, name |-> fileName, content |-> content])]

\* Mutant: the editor buffer is not saved into the document that is left.
switchToFileNoSave(st, fileId) ==
    Store(st.files, fileId,
          IF Has(st.files, fileId) THEN Get(st.files, fileId).content
          ELSE st.markdownInput)

switchToFile(st, fileId) ==
    LET saved == IF Truthy(st.activeFileId) /\ Has(st.files, st.activeFileId)
                 THEN SetContent(st.files, st.activeFileId, st.markdownInput)
                 ELSE st.files
    IN  Store(saved, fileId,
              IF Has(saved, fileId) THEN Get(saved, fileId).content
              ELSE st.markdownInput)

\* Mutant: the last-document guard of deleteFile is missing.
deleteFileNoGuard(st, fileId) ==
    LET rest == Delete(st.files, fileId)
        removed == [st EXCEPT !.files = rest]
    IN  IF st.activeFileId = fileId /\ Len(rest) > 0
        THEN switchToFile(removed, Keys(rest)[1])
        ELSE removed

\* Mutant: deleting the active document does not switch to another one.
deleteFileKeepsActive(st, fileId) ==
    IF Len(st.files) <= 1 THEN st
    ELSE [st EXCEPT !.files = Delete(st.files, fileId)]

deleteFile(st, fileId) ==
    IF Len(st.files) <= 1 THEN st
    ELSE LET rest == Delete(st.files, fileId)
             removed == [st EXCEPT !.files = rest]
         IN  IF st.activeFileId = fileId /\ Len(rest) > 0
             THEN switchToFile(removed, Keys(rest)[1])
             ELSE removed

deleteFileReturn(st, fileId) == Undefined

renameFile(st, fileId, newName) ==
    IF Has(st.files, fileId)
    THEN [st EXCEPT !.files = SetName(st.files, fileId, newName)]
    ELSE st

(* The fileProcessor callback of the Load handler: script.js:1744-1767 *)
EndsWith(s, suffix) ==
    Len(s) >= Len(suffix)
    /\ SubSeq(s, Len(s) - Len(suffix) + 1, Len(s)) = suffix

StripMd(path) ==                     \* path.replace(/\.md$/, '')
    IF EndsWith(path, DotMd) THEN SubSeq(path, 1, Len(path) - Len(DotMd)) ELSE path

FirstNamed(f, name) ==               \* index of the first document named `name`, or 0
    IF \E i \in 1..Len(f) : f[i].name = name
    THEN CHOOSE i \in 1..Len(f) :
            f[i].name = name /\ \A j \in 1..(i - 1) : f[j].name # name
    ELSE 0

\* Mutant: the last document of that name is the one updated.
fileProcessorLastNamed(st, fileData, now) ==
    LET fileName == StripMd(fileData.path)
        named == {i \in 1..Len(st.files) : st.files[i].name = fileName}
    IN  IF named # {}
        THEN [st EXCEPT !.files[CHOOSE i \in named : \A j \in named : j <= i].content =
                            fileData.content]
        ELSE createNewFile(st, fileName, fileData.content, now)

\* Mutant: no look-up by name, every pulled file becomes a new document.
fileProcessorAlwaysCreates(st, fileData, now) ==
    createNewFile(st, StripMd(fileData.path), fileData.content, now)

fileProcessor(st, fileData, now) ==
    LET fileName == StripMd(fileData.path)
        hit == FirstNamed(st.files, fileName)
    IN  IF hit # 0
        THEN [st EXCEPT !.files[hit].content = fileData.content]
        ELSE createNewFile(st, fileName, fileData.content, now)

(* The end of the Load handler: script.js:1769-1778 *)
loadRefreshEditor(st) ==
    IF Truthy(st.activeFileId) /\ Has(st.files, st.activeFileId)
    THEN [st EXCEPT !.markdownInput = Get(st.files, st.activeFileId).content]
    ELSE st

(* The input handler of the editor: script.js:1388-1391 *)
inputHandler(st, text) ==
    IF Truthy(st.activeFileId) /\ Has(st.files, st.activeFileId)
    THEN Store(SetContent(st.files, st.activeFileId, text), st.activeFileId, text)
    ELSE [st EXCEPT !.markdownInput = text]

----------------------------------------------------------------------------
(* debounce and debouncedSaveInput: script.js:429-439 and 1244-1249 *)

SaveDelay == 2      \* the 1000 ms of debouncedSaveInput, in ticks of the clock

\* Mutant: a call while a timeout is pending leaves that timeout running.
debounceNoReset(timer, delay) == IF timer # Null THEN timer ELSE delay

\* One call of the debounced function: clearTimeout, then setTimeout(delay).
debounce(timer, delay) == delay

----------------------------------------------------------------------------
(* Durable storage and startup *)

Digit(c) == c >= 48 /\ c <= 57

RECURSIVE DigitsValue(_)
DigitsValue(s) ==                    \* value of a string of decimal digits
    IF s = << >> THEN 0
    ELSE 10 * DigitsValue(SubSeq(s, 1, Len(s) - 1)) + (s[Len(s)] - 48)

LeadingDigits(s) ==
    LET n == IF \E i \in 1..Len(s) : ~Digit(s[i])
             THEN (CHOOSE i \in 1..Len(s) :
                      ~Digit(s[i]) /\ \A j \in 1..(i - 1) : Digit(s[j])) - 1
             ELSE Len(s)
    IN  SubSeq(s, 1, n)

ParseInt(s) ==                       \* parseInt on an unsigned decimal string
    IF LeadingDigits(s) = << >> THEN NaN ELSE DigitsValue(LeadingDigits(s))

RECURSIVE NumberToString(_)
NumberToString(n) ==                 \* (n).toString() for n >= 0
    IF n < 10 THEN <<48 + n>>
    ELSE NumberToString(n \div 10) \o <<48 + (n % 10)>>

NoItem == [kind |-> "none"]                      \* getItem returned null
TextItem(s) == [kind |-> "text", value |-> s]    \* a stored string
JsonItem(f) == [kind |-> "json", value |-> f]    \* JSON text of a files object
GarbageItem == [kind |-> "garbage"]              \* text JSON.parse rejects
NullItem == [kind |-> "null"]                    \* the JSON text "null"

ItemTruthy(item) ==
    item.kind # "none" /\ ~(item.kind = "text" /\ item.value = EmptyString)

\* JSON.parse returned null: lines 393 to 395 throw inside the try, and the
\* fallback throws again, uncaught, at `files[id]` of generateUniqueFileId.
initializeFilesThrows(savedFiles) == savedFiles.kind = "null"

JsThrow == [t |-> "throw", v |-> 0]

initializeFiles(savedFiles, savedActiveFileId, savedInputItem, editor, now) ==
    IF initializeFilesThrows(savedFiles)
    THEN Store(Null,
               IF ItemTruthy(savedActiveFileId)
               THEN ParseInt(savedActiveFileId.value) ELSE Null,
               editor)
    ELSE
    IF ItemTruthy(savedFiles) /\ savedFiles.kind = "json"
    THEN LET parsed == savedFiles.value
             wanted == IF ItemTruthy(savedActiveFileId)
                       THEN ParseInt(savedActiveFileId.value) ELSE Null
             active == IF ~Truthy(wanted) \/ ~Has(parsed, wanted)
                       THEN (IF Len(parsed) > 0 THEN Keys(parsed)[1] ELSE Null)
                       ELSE wanted
         IN  Store(parsed, active,
                   IF Truthy(active) /\ Has(parsed, active)
                   THEN Get(parsed, active).content ELSE editor)
    ELSE LET savedInput == IF ItemTruthy(savedInputItem)
                           THEN savedInputItem.value ELSE EmptyString
             empty == Store(<< >>, Null, editor)
             seeded == createNewFile(empty, NewFileName, savedInput, now)
         IN  switchToFile(seeded, generateUniqueFileId(empty.files, now))

\* The debounced function when its timeout fires: lines 1244-1248.
saveInput(st, storage) ==
    IF Truthy(st.activeFileId) /\ Has(st.files, st.activeFileId)
    THEN [storage EXCEPT
            !.markdownFiles = JsonItem(st.files),
            !.markdownActiveFileId = TextItem(NumberToString(st.activeFileId))]
    ELSE storage

(* The beforeunload handler: script.js:1448-1454 *)
beforeunloadStore(st) ==
    IF Truthy(st.activeFileId) /\ Has(st.files, st.activeFileId)
    THEN [st EXCEPT !.files = SetContent(st.files, st.activeFileId, st.markdownInput)]
    ELSE st

beforeunload(st, storage) == saveInput(beforeunloadStore(st), storage)

----------------------------------------------------------------------------
(* Text codings of src/github/github-integration.js *)

Hyphen == 45
MaxNameLength == 100                 \* .substring(0, 100)
UntitledFile == <<117, 110, 116, 105, 116, 108, 101, 100, 45, 102, 105, 108, 101>>

IsSpace(c) ==                        \* \s, and what trim() strips
    c \in {9, 10, 11, 12, 13, 32, 160, 5760, 8232, 8233, 8239, 8287, 12288, 65279}
    \/ (c >= 8192 /\ c <= 8202)
IsNameChar(c) ==                     \* [a-zA-Z0-9._-]
    \/ (c >= 97 /\ c <= 122) \/ (c >= 65 /\ c <= 90) \/ (c >= 48 /\ c <= 57)
    \/ c \in {46, 95, Hyphen}

Dropped == -2                        \* marks a character a replace() removes

FirstWhere(s, Test(_)) ==            \* least index whose character passes, or 0
    LET hits == {i \in 1..Len(s) : Test(s[i])}
    IN  IF hits = {} THEN 0 ELSE CHOOSE i \in hits : \A j \in hits : i <= j
LastWhere(s, Test(_)) ==             \* greatest index whose character passes, or 0
    LET hits == {i \in 1..Len(s) : Test(s[i])}
    IN  IF hits = {} THEN 0 ELSE CHOOSE i \in hits : \A j \in hits : j <= i

TrimStart(s) ==
    LET first == FirstWhere(s, LAMBDA c : ~IsSpace(c))
    IN  IF first = 0 THEN << >> ELSE SubSeq(s, first, Len(s))
TrimEnd(s) == SubSeq(s, 1, LastWhere(s, LAMBDA c : ~IsSpace(c)))
Trim(s) == TrimEnd(TrimStart(s))

ReplaceSpecial(s) ==                 \* .replace(/[^a-zA-Z0-9\s._-]/g, '-')
    [i \in 1..Len(s) |-> IF IsNameChar(s[i]) \/ IsSpace(s[i]) THEN s[i] ELSE Hyphen]

ReplaceSpaceRuns(s) ==               \* .replace(/\s+/g, '-')
    SelectSeq([i \in 1..Len(s) |->
                  IF ~IsSpace(s[i]) THEN s[i]
                  ELSE IF i > 1 /\ IsSpace(s[i - 1]) THEN Dropped ELSE Hyphen],
              LAMBDA c : c # Dropped)

StripLeadingHyphens(s) ==
    LET first == FirstWhere(s, LAMBDA c : c # Hyphen)
    IN  IF first = 0 THEN << >> ELSE SubSeq(s, first, Len(s))
StripTrailingHyphens(s) == SubSeq(s, 1, LastWhere(s, LAMBDA c : c # Hyphen))

CollapseHyphens(s) ==                \* .replace(/-+/g, '-')
    SelectSeq([i \in 1..Len(s) |->
                  IF s[i] = Hyphen /\ i > 1 /\ s[i - 1] = Hyphen THEN Dropped ELSE s[i]],
              LAMBDA c : c # Dropped)

StripHyphens(s) ==                   \* .replace(/^-+|-+$/g, '')
    StripTrailingHyphens(StripLeadingHyphens(s))

Substring(s, from, to) ==            \* s.substring(from, to), 0 <= from <= to
    SubSeq(s, from + 1, IF to < Len(s) THEN to ELSE Len(s))

ToLowerCase(s) ==                    \* on [a-zA-Z0-9._-], all that is left by then
    [i \in 1..Len(s) |-> IF s[i] >= 65 /\ s[i] <= 90 THEN s[i] + 32 ELSE s[i]]

sanitizeFileName(name) ==
    LET cleaned == ToLowerCase(Substring(
                       StripHyphens(CollapseHyphens(ReplaceSpaceRuns(
                           ReplaceSpecial(Trim(name))))),
                       0, MaxNameLength))
    IN  IF cleaned = EmptyString THEN UntitledFile ELSE cleaned

(* unescape(encodeURIComponent(content)): the UTF-8 bytes of the text, one *)
(* character per byte.  Code points of the basic plane.                    *)
RECURSIVE Utf8Bytes(_)
Utf8Bytes(s) ==
    IF s = << >> THEN << >>
    ELSE LET c == Head(s)
             bytes == IF c < 128 THEN <<c>>
                      ELSE IF c < 2048
                           THEN <<192 + (c \div 64), 128 + (c % 64)>>
                           ELSE <<224 + (c \div 4096), 128 + ((c \div 64) % 64),
                                  128 + (c % 64)>>
         IN  bytes \o Utf8Bytes(Tail(s))

(* btoa / atob.  A base64 text is a sequence of digits 0..63, padded with  *)
(* Base64Pad to a multiple of four.                                        *)
Base64Pad == 64

RECURSIVE Btoa(_)
Btoa(b) ==
    IF Len(b) = 0 THEN << >>
    ELSE IF Len(b) = 1
         THEN <<b[1] \div 4, (b[1] % 4) * 16, Base64Pad, Base64Pad>>
    ELSE IF Len(b) = 2
         THEN <<b[1] \div 4, (b[1] % 4) * 16 + (b[2] \div 16), (b[2] % 16) * 4, Base64Pad>>
    ELSE <<b[1] \div 4, (b[1] % 4) * 16 + (b[2] \div 16),
           (b[2] % 16) * 4 + (b[3] \div 64), b[3] % 64>>
         \o Btoa(SubSeq(b, 4, Len(b)))

RECURSIVE Atob(_)
Atob(t) ==
    IF Len(t) < 4 THEN << >>
    ELSE LET first == <<t[1] * 4 + (t[2] \div 16)>>
             second == IF t[3] = Base64Pad THEN << >>
                       ELSE <<(t[2] % 16) * 16 + (t[3] \div 4)>>
             third == IF t[3] = Base64Pad \/ t[4] = Base64Pad THEN << >>
                      ELSE <<(t[3] % 4) * 64 + t[4]>>
         IN  first \o second \o third \o Atob(SubSeq(t, 5, Len(t)))

----------------------------------------------------------------------------
(* The repository contents API, as GitHubAPI sees it *)

NoSha == [none |-> TRUE]                     \* `sha = null`
BlobSha(bytes) == [blob |-> bytes]           \* the sha of a file is the hash of its content
NoRequest == [method |-> "none"]
NoExchange == [request |-> NoRequest, response |-> [status |-> "none"]]

Faults == {"none", "transport", "api"}       \* what befalls one request

RECURSIVE Less(_, _)
Less(a, b) ==                                \* a sorts before b
    IF b = << >> THEN FALSE
    ELSE IF a = << >> THEN TRUE
    ELSE IF Head(a) # Head(b) THEN Head(a) < Head(b)
    ELSE Less(Tail(a), Tail(b))

RECURSIVE SortedPaths(_)
SortedPaths(paths) ==
    IF paths = {} THEN << >>
    ELSE LET first == CHOOSE p \in paths : \A q \in paths \ {p} : Less(p, q)
         IN  <<first>> \o SortedPaths(paths \ {first})

(* GET /repos/{owner}/{repo}/contents/{path}?ref={branch} *)
RemoteGet(r, request, fault) ==
    IF fault # "none" THEN [status |-> fault]
    ELSE IF request.path = EmptyString
    THEN [status |-> "ok",
          data |-> LET paths == SortedPaths(DOMAIN r)
                   IN  [i \in 1..Len(paths) |->
                          [type |-> r[paths[i]].type, name |-> paths[i], path |-> paths[i]]]]
    ELSE IF request.path \in DOMAIN r /\ r[request.path].type = "file"
    THEN [status |-> "ok",
          data |-> [content |-> Btoa(r[request.path].bytes),
                    sha |-> BlobSha(r[request.path].bytes),
                    path |-> request.path]]
    ELSE [status |-> "notfound"]

(* PUT /repos/{owner}/{repo}/contents/{path}: the response *)
RemotePut(r, request, fault) ==
    IF fault # "none" THEN [status |-> fault]
    ELSE IF request.path \in DOMAIN r
    THEN IF request.sha = NoSha THEN [status |-> "unprocessable"]
         ELSE IF request.sha = BlobSha(r[request.path].bytes) THEN [status |-> "ok"]
         ELSE [status |-> "conflict"]
    ELSE IF request.sha = NoSha THEN [status |-> "ok"] ELSE [status |-> "unprocessable"]

(* PUT: the branch afterwards *)
RemoteAfterPut(r, request, response) ==
    IF response.status = "ok"
    THEN [p \in DOMAIN r \cup {request.path} |->
            IF p = request.path THEN [type |-> "file", bytes |-> Atob(request.content)]
            ELSE r[p]]
    ELSE r

ErrorMessage(status) ==
    CASE status = "transport" -> "Failed to fetch"
      [] status = "api" -> "Server Error"
      [] status = "notfound" -> "Not Found"
      [] status = "conflict" -> "does not match"
      [] status = "unprocessable" -> "sha wasn't supplied"

makeRequest(response) ==
    IF response.status = "ok" THEN [ok |-> TRUE, data |-> response.data]
    ELSE [ok |-> FALSE, error |-> ErrorMessage(response.status)]

readFile(response) ==
    LET got == makeRequest(response)
    IN  IF ~got.ok THEN got
        ELSE IF got.data.content # EmptyString
        THEN [ok |-> TRUE, content |-> Atob(got.data.content),
              sha |-> got.data.sha, path |-> got.data.path]
        ELSE [ok |-> FALSE, error |-> "Invalid response format"]

readFileRequest(path) == [method |-> "GET", path |-> path]

writeFileRequest(path, content, sha) ==
    [method |-> "PUT", path |-> path, content |-> Btoa(Utf8Bytes(content)), sha |-> sha]

writeFile(response) ==
    IF response.status = "ok" THEN [ok |-> TRUE]
    ELSE [ok |-> FALSE, error |-> ErrorMessage(response.status)]

getMarkdownFiles(response) ==
    LET got == makeRequest(response)
    IN  IF ~got.ok THEN got
        ELSE [ok |-> TRUE,
              data |-> SelectSeq(got.data,
                          LAMBDA file : file.type = "file" /\ EndsWith(file.name, DotMd))]

----------------------------------------------------------------------------
(* GitHubSyncManager.syncToGitHub, between its suspension points.  `sy` is  *)
(* the invocation: [pc, entries, index, overwrite, fileName, sha, request,  *)
(* results]; `f` is the files object the entries refer to.                  *)

NoResults == [success |-> << >>, failed |-> << >>, skipped |-> << >>]

\* The head of the loop body: the file name, and the read that is sent.
beginIteration(sy, f, i) ==
    IF i > Len(sy.entries)
    THEN [sy EXCEPT !.pc = "done", !.index = i, !.request = NoRequest]
    ELSE LET file == Get(f, sy.entries[i])
             fileName == sanitizeFileName(file.name) \o DotMd
         IN  [sy EXCEPT !.pc = "read", !.index = i, !.fileName = fileName,
                        !.sha = NoSha, !.request = readFileRequest(fileName)]

\* Mutant: a file that exists is written over, whatever `overwrite` says.
afterReadIgnoresOverwrite(sy, f, existing) ==
    LET file == Get(f, sy.entries[sy.index])
        sha == IF existing.ok THEN existing.sha ELSE NoSha
    IN  [sy EXCEPT !.pc = "write", !.sha = sha,
                   !.request = writeFileRequest(sy.fileName, file.content, sha)]

\* From the answer to readFile to the next request: lines 272-298.
afterRead(sy, f, existing) ==
    LET file == Get(f, sy.entries[sy.index])
        sha == IF existing.ok THEN existing.sha ELSE NoSha
    IN  IF existing.ok /\ ~sy.overwrite
        THEN beginIteration(
                 [sy EXCEPT !.sha = sha,
                            !.results.skipped =
                                Append(@, [id |-> file.id, name |-> file.name,
                                           reason |-> "exists"])],
                 f, sy.index + 1)
        ELSE [sy EXCEPT !.pc = "write", !.sha = sha,
                        !.request = writeFileRequest(sy.fileName, file.content, sha)]

\* Mutant: an error of the write is not caught per file.
afterWriteFailFast(sy, f, written) ==
    LET file == Get(f, sy.entries[sy.index])
    IN  IF written.ok
        THEN beginIteration(
                 [sy EXCEPT !.results.success =
                                Append(@, [id |-> file.id, name |-> file.name,
                                           path |-> sy.fileName])],
                 f, sy.index + 1)
        ELSE [sy EXCEPT !.pc = "thrown", !.request = NoRequest]

\* Mutant: a document that was written is put at the head of `success`.
afterWritePrepends(sy, f, written) ==
    LET file == Get(f, sy.entries[sy.index])
    IN  IF written.ok
        THEN beginIteration(
                 [sy EXCEPT !.results.success =
                                <<[id |-> file.id, name |-> file.name,
                                   path |-> sy.fileName]>> \o @],
                 f, sy.index + 1)
        ELSE beginIteration(
                 [sy EXCEPT !.results.failed =
                                Append(@, [id |-> file.id, name |-> file.name,
                                           error |-> written.error])],
                 f, sy.index + 1)

\* From the answer to writeFile to the next request: lines 293-312.
afterWrite(sy, f, written) ==
    LET file == Get(f, sy.entries[sy.index])
    IN  IF written.ok
        THEN beginIteration(
                 [sy EXCEPT !.results.success =
                                Append(@, [id |-> file.id, name |-> file.name,
                                           path |-> sy.fileName])],
                 f, sy.index + 1)
        ELSE beginIteration(
                 [sy EXCEPT !.results.failed =
                                Append(@, [id |-> file.id, name |-> file.name,
                                           error |-> written.error])],
                 f, sy.index + 1)

syncToGitHub(localFiles, overwrite) ==
    beginIteration([pc |-> "idle", entries |-> Keys(localFiles), index |-> 1,
                    overwrite |-> overwrite, fileName |-> EmptyString, sha |-> NoSha,
                    request |-> NoRequest, results |-> NoResults],
                   localFiles, 1)

(* A request that is not sent: readFile, writeFile and listFiles throw at    *)
(* lines 164-166, 193-195 and 150-152 when the repository is not named, and *)
(* makeRequest throws at lines 96-98 when no token is set.                  *)
TokenNotSet == "GitHub token not set. Please authenticate first."
RepositoryNotConfigured ==
    "Repository not configured. Please set repository owner and name."

ConfigError(hasToken, hasRepository) ==
    IF ~hasRepository THEN RepositoryNotConfigured ELSE TokenNotSet

\* The invocation from the request it was about to send, which throws
\* `error` instead, and so does every request after it.
RECURSIVE unsent(_, _, _)
unsent(sy, f, error) ==
    IF sy.pc = "read" THEN unsent(afterRead(sy, f, [ok |-> FALSE, error |-> error]), f, error)
    ELSE IF sy.pc = "write"
    THEN unsent(afterWrite(sy, f, [ok |-> FALSE, error |-> error]), f, error)
    ELSE sy

issued(sy, f, hasToken, hasRepository) ==
    IF hasToken /\ hasRepository THEN sy
    ELSE unsent(sy, f, ConfigError(hasToken, hasRepository))

(* GitHubSyncManager.loadFromGitHub with the Load handler of script.js that *)
(* calls it.  `ld` is the invocation: [pc, markdownFiles, index, request,   *)
(* results, calls]; `st` is the store the fileProcessor callback works on.  *)

NoLoadResults == [success |-> << >>, failed |-> << >>]

\* The head of the loop body; past the last file the handler resumes.
beginLoad(ld, st, i) ==
    IF i > Len(ld.markdownFiles)
    THEN [load |-> [ld EXCEPT !.pc = "done", !.index = i, !.request = NoRequest],
          store |-> loadRefreshEditor(st)]
    ELSE [load |-> [ld EXCEPT !.pc = "read", !.index = i,
                              !.request = readFileRequest(ld.markdownFiles[i].path)],
          store |-> st]

\* From the answer to getMarkdownFiles on: lines 329-331 and 351-354.
afterListing(ld, st, listed) ==
    IF listed.ok
    THEN beginLoad([ld EXCEPT !.markdownFiles = listed.data], st, 1)
    ELSE [load |-> [ld EXCEPT !.pc = "thrown", !.request = NoRequest], store |-> st]

\* Mutant: an error of one file ends the loop.
afterLoadReadFailFast(ld, st, fileData, now) ==
    LET file == ld.markdownFiles[ld.index]
    IN  IF fileData.ok
        THEN beginLoad(
                 [ld EXCEPT !.calls = Append(@, fileData),
                            !.results.success =
                                Append(@, [name |-> file.name, path |-> file.path,
                                           processed |-> TRUE])],
                 fileProcessor(st, fileData, now), ld.index + 1)
        ELSE [load |-> [ld EXCEPT !.pc = "thrown", !.request = NoRequest], store |-> st]

\* From the answer to readFile to the next request: lines 333-349.
afterLoadRead(ld, st, fileData, now) ==
    LET file == ld.markdownFiles[ld.index]
    IN  IF fileData.ok
        THEN beginLoad(
                 [ld EXCEPT !.calls = Append(@, fileData),
                            !.results.success =
                                Append(@, [name |-> file.name, path |-> file.path,
                                           processed |-> TRUE])],
                 fileProcessor(st, fileData, now), ld.index + 1)
        ELSE beginLoad(
                 [ld EXCEPT !.results.failed =
                                Append(@, [name |-> file.name, path |-> file.path,
                                           error |-> fileData.error])],
                 st, ld.index + 1)

RECURSIVE unsentLoad(_, _)
unsentLoad(next, error) ==
    IF next.load.pc = "read"
    THEN unsentLoad(afterLoadRead(next.load, next.store,
                                  [ok |-> FALSE, error |-> error], Null), error)
    ELSE next

issuedLoad(next, hasToken, hasRepository) ==
    IF hasToken /\ hasRepository THEN next
    ELSE unsentLoad(next, ConfigError(hasToken, hasRepository))

loadFromGitHub ==
    [pc |-> "listing", markdownFiles |-> << >>, index |-> 1,
     request |-> readFileRequest(EmptyString), results |-> NoLoadResults,
     calls |-> << >>]

----------------------------------------------------------------------------
(* The document store as a state machine *)

Current == Store(files, activeFileId, markdownInput)

Operation(name, fileId, now) == [name |-> name, fileId |-> fileId, now |-> now]

Sync ==
    [pc |-> syncPc, entries |-> syncEntries, index |-> syncIndex,
     overwrite |-> syncOverwrite, fileName |-> syncFileName, sha |-> syncSha,
     request |-> syncRequest, results |-> results]

Load ==
    [pc |-> loadPc, markdownFiles |-> markdownFiles, index |-> loadIndex,
     request |-> loadRequest, results |-> loadResults, calls |-> loadCalls]

StoreBecomes(st) ==
    /\ files' = st.files
    /\ activeFileId' = st.activeFileId
    /\ markdownInput' = st.markdownInput

SyncBecomes(sy) ==
    /\ syncPc' = sy.pc
    /\ syncEntries' = sy.entries
    /\ syncIndex' = sy.index
    /\ syncOverwrite' = sy.overwrite
    /\ syncFileName' = sy.fileName
    /\ syncSha' = sy.sha
    /\ syncRequest' = sy.request
    /\ results' = sy.results

LoadBecomes(ld) ==
    /\ loadPc' = ld.pc
    /\ markdownFiles' = ld.markdownFiles
    /\ loadIndex' = ld.index
    /\ loadRequest' = ld.request
    /\ loadResults' = ld.results
    /\ loadCalls' = ld.calls

NoSync ==                            \* no such invocation has been made
    [pc |-> "idle", entries |-> << >>, index |-> 1, overwrite |-> FALSE,
     fileName |-> EmptyString, sha |-> NoSha, request |-> NoRequest,
     results |-> NoResults]

NothingInFlight ==
    /\ http = NoExchange
    /\ syncPc = "idle"
    /\ syncEntries = << >>
    /\ syncIndex = 1
    /\ syncOverwrite = FALSE
    /\ syncFileName = EmptyString
    /\ syncSha = NoSha
    /\ syncRequest = NoRequest
    /\ results = NoResults
    /\ syncOther = NoSync
    /\ loadPc = "idle"
    /\ markdownFiles = << >>
    /\ loadIndex = 1
    /\ loadRequest = NoRequest
    /\ loadResults = NoLoadResults
    /\ loadCalls = << >>

\* Durable storage is left out: nothing of it is followed, no save is pending.
NotFollowed == [followed |-> FALSE]
NothingStored == localStorage = NotFollowed /\ saveTimer = Null

\* A token is saved and the repository is named.
Configured == token = TRUE /\ repository = TRUE

EmptyRemote == [p \in {} |-> [type |-> "file", bytes |-> << >>]]

StoreStep(operation, value) ==
    /\ op' = operation
    /\ ret' = value
    /\ UNCHANGED <<remote, http, syncVars, loadVars, pureVars, persistVars, configVars>>

RECURSIVE DocSeqs(_)
DocSeqs(n) ==                        \* files objects of at most n documents
    IF n = 0 THEN {<< >>}
    ELSE LET shorter == DocSeqs(n - 1)
         IN  shorter \cup
             { Append(f, [id |-> id, name |-> name, content |-> content]) :
                 f \in {g \in shorter : Len(g) = n - 1},
                 id \in Ids, name \in StoreNames, content \in StoreContents }

StoredFiles ==
    {NoItem, TextItem(EmptyString), GarbageItem}
    \cup {JsonItem(f) : f \in {g \in DocSeqs(MaxFiles) :
                                    Cardinality(KeySet(g)) = Len(g)}}
StoredActiveFileId ==
    {NoItem, TextItem(<<63>>)} \cup {TextItem(NumberToString(id)) : id \in Ids}
StoredInput == {NoItem} \cup {TextItem(c) : c \in StoreContents}

StoreInit ==
    \E savedFiles \in StoredFiles, savedActiveFileId \in StoredActiveFileId,
       savedInput \in StoredInput, now \in Clock :
        LET st == initializeFiles(savedFiles, savedActiveFileId, savedInput,
                                  EmptyString, now)
        IN  /\ files = st.files
            /\ activeFileId = st.activeFileId
            /\ markdownInput = st.markdownInput
            /\ op = Operation("initializeFiles", Null, now)
            /\ ret = Undefined
            /\ remote = EmptyRemote
            /\ NothingInFlight
            /\ Configured
            /\ sanitizeCalls = << >>
            /\ loadBefore = NoneBefore
            /\ listeners = 1
            /\ NothingStored

CreateNewFile ==
    \E name \in StoreNames \cup {EmptyString}, content \in StoreContents, now \in Clock :
        /\ Len(files) < MaxFiles
        /\ StoreBecomes(createNewFile(Current, name, content, now))
        /\ StoreStep(Operation("createNewFile", Null, now),
                     JsNumber(generateUniqueFileId(files, now)))

SwitchToFile ==
    \E fileId \in Ids :
        /\ StoreBecomes(switchToFile(Current, fileId))
        /\ StoreStep(Operation("switchToFile", fileId, Null), Undefined)

DeleteFile ==
    \E fileId \in Ids :
        /\ StoreBecomes(deleteFile(Current, fileId))
        /\ StoreStep(Operation("deleteFile", fileId, Null),
                     deleteFileReturn(Current, fileId))

RenameFile ==
    \E fileId \in Ids, newName \in StoreNames :
        /\ StoreBecomes(renameFile(Current, fileId, newName))
        /\ StoreStep(Operation("renameFile", fileId, Null), Undefined)

InputEvent ==
    \E text \in StoreContents :
        /\ StoreBecomes(inputHandler(Current, text))
        /\ saveTimer' = debounce(saveTimer, SaveDelay)
        /\ op' = Operation("input", Null, Null)
        /\ ret' = Undefined
        /\ UNCHANGED <<remote, http, syncVars, loadVars, pureVars, localStorage, configVars>>

PulledPaths == {NameTodo \o DotMd, DotMd}

\* One call of the callback by a Load that is under way.
FileProcessor ==
    \E path \in PulledPaths, content \in StoreContents, now \in Clock :
        /\ Len(files) < MaxFiles
        /\ StoreBecomes(fileProcessor(Current, [path |-> path, content |-> content], now))
        /\ StoreStep(Operation("fileProcessor", Null, now), Undefined)

\* The Load handler resuming after loadFromGitHub.
LoadRefreshEditor ==
    /\ StoreBecomes(loadRefreshEditor(Current))
    /\ StoreStep(Operation("loadRefreshEditor", Null, Null), Undefined)

StoreNext ==
    \/ CreateNewFile
    \/ SwitchToFile
    \/ DeleteFile
    \/ RenameFile
    \/ InputEvent
    \/ FileProcessor
    \/ LoadRefreshEditor

SpecStore == StoreInit /\ [][StoreNext]_vars

----------------------------------------------------------------------------
(* The synchronisation engine as a state machine *)

NameTodoBang == <<84, 111, 100, 111, 33>>                    \* "Todo!"
PathNewFile == sanitizeFileName(NewFileName) \o DotMd        \* "new-file.md"
PathTodo == sanitizeFileName(NameTodo) \o DotMd              \* "todo.md"
PathReadme == <<114, 101, 97, 100, 109, 101>>                \* "readme"

SyncNames == {NewFileName, NameTodo, NameTodoBang}
SyncContents == {EmptyString, TextX}

RECURSIVE SyncStores(_)
SyncStores(n) ==                     \* files objects of n documents, ids 1..n
    IF n = 0 THEN {<< >>}
    ELSE { Append(f, [id |-> n, name |-> name, content |-> content]) :
             f \in SyncStores(n - 1), name \in SyncNames, content \in SyncContents }

RemoteFiles == {[type |-> "file", bytes |-> Utf8Bytes(c)] : c \in SyncContents}
NoteRemotes ==                       \* branches that hold notes only
    UNION { [paths -> RemoteFiles] : paths \in SUBSET {PathNewFile, PathTodo} }
Remotes ==                           \* notes, with or without a file that is no note
    NoteRemotes \cup
        { [p \in DOMAIN r \cup {PathReadme} |->
             IF p = PathReadme THEN [type |-> "file", bytes |-> Utf8Bytes(TextX)]
             ELSE r[p]] : r \in NoteRemotes }

SyncInit(remotes) ==
    /\ \E n \in 1..MaxFiles : files \in SyncStores(n)
    /\ activeFileId = Keys(files)[1]
    /\ markdownInput = files[1].content
    /\ op = Operation("initializeFiles", Null, Null)
    /\ ret = Undefined
    /\ remote \in remotes
    /\ NothingInFlight
    /\ Configured
    /\ sanitizeCalls = << >>
    /\ loadBefore = NoneBefore
    /\ listeners = 1
    /\ NothingStored

PushInit == SyncInit(NoteRemotes)
PullInit == SyncInit(Remotes)

SyncClick ==
    \E overwrite \in BOOLEAN :
        /\ syncPc \in {"idle", "done"}
        /\ IF token /\ repository
           THEN /\ SyncBecomes(syncToGitHub(files, overwrite))
                /\ op' = Operation("syncToGitHub", Null, Null)
           ELSE /\ UNCHANGED syncVars
                /\ op' = Operation("syncAlert", Null, Null)
        /\ UNCHANGED <<syncOther, files, activeFileId, markdownInput, ret, remote, http, loadVars, pureVars, persistVars, configVars>>

SyncRead ==
    \E fault \in Faults :
        /\ syncPc = "read"
        /\ LET response == RemoteGet(remote, syncRequest, fault)
           IN  /\ SyncBecomes(issued(afterRead(Sync, files, readFile(response)),
                                      files, token, repository))
               /\ http' = [request |-> syncRequest, response |-> response]
        /\ op' = Operation("syncRead", syncEntries[syncIndex], Null)
        /\ UNCHANGED <<syncOther, files, activeFileId, markdownInput, ret, remote, loadVars, pureVars, persistVars, configVars>>

SyncWrite ==
    \E fault \in Faults :
        /\ syncPc = "write"
        /\ LET response == RemotePut(remote, syncRequest, fault)
           IN  /\ SyncBecomes(issued(afterWrite(Sync, files, writeFile(response)),
                                      files, token, repository))
               /\ remote' = RemoteAfterPut(remote, syncRequest, response)
               /\ http' = [request |-> syncRequest, response |-> response]
        /\ op' = Operation("syncWrite", syncEntries[syncIndex], Null)
        /\ UNCHANGED <<syncOther, files, activeFileId, markdownInput, ret, loadVars, pureVars, persistVars, configVars>>

\* Another client of the repository commits to a note between the read and
\* the write of a document.
ForeignCommit ==
    \E path \in DOMAIN remote \cap {PathNewFile, PathTodo}, file \in RemoteFiles :
        /\ syncPc = "write"
        /\ file # remote[path]
        /\ remote' = [remote EXCEPT ![path] = file]
        /\ op' = Operation("foreignCommit", Null, Null)
        /\ UNCHANGED <<files, activeFileId, markdownInput, ret, http, syncVars, loadVars, pureVars, persistVars, configVars>>

\* When loadFromGitHub has returned, its promise resolves and the Load
\* handler goes on in the same task: script.js:1769-1778.
loadReturns(next) ==
    IF next.load.pc = "done" THEN loadRefreshEditor(next.store) ELSE next.store

LoadClick ==
    /\ loadPc \in {"idle", "done", "thrown"}
    /\ IF token /\ repository
       THEN /\ LoadBecomes(loadFromGitHub)
            /\ op' = Operation("loadFromGitHub", Null, Null)
       ELSE /\ UNCHANGED loadVars
            /\ op' = Operation("loadAlert", Null, Null)
    /\ UNCHANGED <<files, activeFileId, markdownInput, ret, remote, http, syncVars, pureVars, persistVars, configVars>>

LoadList ==
    \E fault \in Faults :
        /\ loadPc = "listing"
        /\ LET response == RemoteGet(remote, loadRequest, fault)
               next == issuedLoad(afterListing(Load, Current, getMarkdownFiles(response)),
                                  token, repository)
           IN  /\ LoadBecomes(next.load)
               /\ StoreBecomes(loadReturns(next))
               /\ http' = [request |-> loadRequest, response |-> response]
        /\ op' = Operation("loadList", Null, Null)
        /\ UNCHANGED <<ret, remote, syncVars, pureVars, persistVars, configVars>>

LoadRead ==
    \E fault \in Faults, now \in Clock :
        /\ loadPc = "read"
        /\ LET response == RemoteGet(remote, loadRequest, fault)
               next == issuedLoad(afterLoadRead(Load, Current, readFile(response), now),
                                  token, repository)
           IN  /\ LoadBecomes(next.load)
               /\ StoreBecomes(loadReturns(next))
               /\ http' = [request |-> loadRequest, response |-> response]
        /\ op' = Operation("loadRead", Null, now)
        /\ UNCHANGED <<ret, remote, syncVars, pureVars, persistVars, configVars>>

PushNext ==
    \/ SyncClick
    \/ SyncRead
    \/ SyncWrite
    \/ ForeignCommit

PullNext ==
    \/ LoadClick
    \/ LoadList
    \/ LoadRead

(* One Sync action at a time, token and repository configured, and other   *)
(* clients of the repository                                               *)
SpecPush == PushInit /\ [][PushNext]_vars

(* One Load action at a time, token and repository configured *)
SpecPull == PullInit /\ [][PullNext]_vars

----------------------------------------------------------------------------
(* Properties of the document store, under SpecStore *)

C2_NeverEmpty == Len(files) >= 1

\* C3: activeFileId is unset or the id of a document of the store.
C3_ActiveIdExists == activeFileId = Null \/ Has(files, activeFileId)

\* C4: switchToFile with an id that is not in the store leaves activeFileId as
\* it was.
C4_SwitchUnknownKeepsActive ==
    [][(op'.name = "switchToFile" /\ ~Has(files, op'.fileId))
        => activeFileId' = activeFileId]_vars

\* C5: createNewFile returns an id no document of the store has, also when the
\* clock value is already taken, and adds one document under that id after
\* the existing documents, which stay as they were.
C5_CreateReturnsFreshId ==
    [][op'.name = "createNewFile"
        => /\ ret'.t = "number"
           /\ ~Has(files, ret'.v)
           /\ Len(files') = Len(files) + 1
           /\ SubSeq(files', 1, Len(files)) = files
           /\ files'[Len(files')].id = ret'.v]_vars

\* createNewFile has run at a clock value that a document already had as id.
C5_Witness ==
    /\ op.name = "createNewFile"
    /\ Has(files, op.now)
    /\ ret = JsNumber(files[Len(files)].id)
    /\ ret.v # op.now

----------------------------------------------------------------------------
(* Properties of syncToGitHub, under SpecPush *)

Classified(list, id) == Cardinality({k \in 1..Len(list) : list[k].id = id})

ReachedServer(response) == response.status \notin {"transport", "api"}

\* C6: syncToGitHub never throws; every document the loop is past is in
\* exactly one of success, failed and skipped, the others in none; and the
\* loop ends only past the last document, whatever failed before.
C6_EveryDocumentClassifiedOnce ==
    /\ syncPc # "thrown"
    /\ \A k \in 1..Len(syncEntries) :
          Classified(results.success, syncEntries[k])
          + Classified(results.failed, syncEntries[k])
          + Classified(results.skipped, syncEntries[k])
          = IF k < syncIndex THEN 1 ELSE 0
    /\ syncPc = "done" => syncIndex = Len(syncEntries) + 1
    /\ Len(results.success) + Len(results.failed) + Len(results.skipped)
          = syncIndex - 1

\* An invocation has returned in which a document failed and a later one
\* was written.
C6_Witness ==
    /\ syncPc = "done"
    /\ \E i, j \in 1..Len(syncEntries) :
          /\ i < j
          /\ Classified(results.failed, syncEntries[i]) = 1
          /\ Classified(results.success, syncEntries[j]) = 1

\* C7: without overwrite, a document whose path exists at the remote is put
\* in skipped with reason "exists" and no write is sent for it, whatever the
\* content of the remote file.  Stated for the reads the server answered.
C7_ExistingIsSkipped ==
    [][(/\ op'.name = "syncRead"
        /\ ~syncOverwrite
        /\ syncFileName \in DOMAIN remote
        /\ ReachedServer(http'.response))
        => /\ results'.skipped =
                Append(results.skipped,
                       [id |-> Get(files, syncEntries[syncIndex]).id,
                        name |-> Get(files, syncEntries[syncIndex]).name,
                        reason |-> "exists"])
           /\ syncPc' # "write"]_vars

\* C8: the write sent for a document carries a version marker exactly when
\* the remote file exists at its path, and then the marker of that file; a
\* write that succeeds lists the document in success under its path.
C8_MarkerIffRemoteExists ==
    [][/\ (/\ op'.name = "syncRead"
           /\ syncPc' = "write"
           /\ ReachedServer(http'.response))
          => IF syncFileName \in DOMAIN remote
             THEN syncRequest'.sha = BlobSha(remote[syncFileName].bytes)
             ELSE syncRequest'.sha = NoSha
       /\ (op'.name = "syncWrite" /\ http'.response.status = "ok")
          => results'.success =
                Append(results.success,
                       [id |-> Get(files, syncEntries[syncIndex]).id,
                        name |-> Get(files, syncEntries[syncIndex]).name,
                        path |-> sanitizeFileName(
                                     Get(files, syncEntries[syncIndex]).name)
                                 \o DotMd])]_vars

\* C9: a transport or API error of the existence read, or of the write, puts
\* the document in failed with the message of the error, and no write is sent
\* after a read that failed so.
C9_RequestErrorsAreCaptured ==
    [][(/\ op'.name \in {"syncRead", "syncWrite"}
        /\ ~ReachedServer(http'.response))
        => /\ results'.failed =
                Append(results.failed,
                       [id |-> Get(files, syncEntries[syncIndex]).id,
                        name |-> Get(files, syncEntries[syncIndex]).name,
                        error |-> ErrorMessage(http'.response.status)])
           /\ syncPc' # "write"]_vars

----------------------------------------------------------------------------
(* Properties of loadFromGitHub, under SpecPull *)

Listed(list, path) == Cardinality({k \in 1..Len(list) : list[k].path = path})

\* C10: an invocation throws exactly when the listing fails, and then the
\* callback has not been called and no file has a result; otherwise every
\* file the loop is past is in exactly one of success and failed, the callback
\* has been called once for each file in success, in order, and the loop ends
\* only past the last listed file.
C10_ListingFailsWholeFileFailsAlone ==
    /\ loadPc = "thrown"
          <=> (op.name = "loadList" /\ http.response.status # "ok")
    /\ loadPc = "thrown" => (loadCalls = << >> /\ loadResults = NoLoadResults)
    /\ \A k \in 1..Len(markdownFiles) :
          Listed(loadResults.success, markdownFiles[k].path)
          + Listed(loadResults.failed, markdownFiles[k].path)
          = IF k < loadIndex THEN 1 ELSE 0
    /\ Len(loadResults.success) + Len(loadResults.failed) = loadIndex - 1
    /\ loadPc = "done" => loadIndex = Len(markdownFiles) + 1
    /\ Len(loadCalls) = Len(loadResults.success)
    /\ \A k \in 1..Len(loadCalls) : loadCalls[k].path = loadResults.success[k].path

\* An invocation has returned in which a listed file failed and a later one
\* was handed to the callback.
C10_Witness ==
    /\ loadPc = "done"
    /\ \E i, j \in 1..Len(markdownFiles) :
          /\ i < j
          /\ Listed(loadResults.failed, markdownFiles[i].path) = 1
          /\ Listed(loadCalls, markdownFiles[j].path) = 1

----------------------------------------------------------------------------
(* sanitizeFileName as a function of any name *)

MaxTail == 3            \* characters of a name after its run of letters
MaxApplications == 2    \* times sanitizeFileName is applied in turn

NameAlphabet == {97, 65, Hyphen, 32, 33, 46}          \* a A - space ! .

RECURSIVE Tails(_)
Tails(n) ==
    IF n = 0 THEN {<< >>}
    ELSE LET shorter == Tails(n - 1)
         IN  shorter \cup {Append(t, c) : t \in {u \in shorter : Len(u) = n - 1},
                                           c \in NameAlphabet}

\* Short names, and names about as long as the limit of .substring(0, 100).
SanitizeNames ==
    {[i \in 1..k |-> 97] \o t :
        k \in {0} \cup ((MaxNameLength - MaxTail)..(MaxNameLength + 1)),
        t \in Tails(MaxTail)}

SanitizeInit ==
    /\ \E name \in SanitizeNames : sanitizeCalls = <<name>>
    /\ loadBefore = NoneBefore
    /\ listeners = 1
    /\ LET st == initializeFiles(NoItem, NoItem, NoItem, EmptyString, 1)
       IN  /\ files = st.files
           /\ activeFileId = st.activeFileId
           /\ markdownInput = st.markdownInput
    /\ op = Operation("initializeFiles", Null, 1)
    /\ ret = Undefined
    /\ remote = EmptyRemote
    /\ NothingInFlight
    /\ Configured
    /\ NothingStored

SanitizeFileName ==
    /\ Len(sanitizeCalls) <= MaxApplications
    /\ sanitizeCalls' =
          Append(sanitizeCalls, sanitizeFileName(sanitizeCalls[Len(sanitizeCalls)]))
    /\ UNCHANGED <<storeVars, remote, http, syncVars, loadVars, loadBefore, listeners, persistVars,
                   configVars>>

SanitizeNext == SanitizeFileName

SpecSanitize == SanitizeInit /\ [][SanitizeNext]_vars

\* C12: sanitizeFileName applied to a result of sanitizeFileName returns it
\* unchanged, for every name, also one longer than the limit and one whose
\* cut form ends in a hyphen.
C12_SanitizeIdempotent ==
    \A k \in 2..(Len(sanitizeCalls) - 1) : sanitizeCalls[k + 1] = sanitizeCalls[k]

----------------------------------------------------------------------------
(* A Sync followed, once it has returned, by a Load, with no edit between *)

\* Names that sanitizeFileName leaves as they are.
RoundTripNames == {name \in {sanitizeFileName(n) : n \in SyncNames} :
                       sanitizeFileName(name) = name}

RECURSIVE RoundTripStores(_)
RoundTripStores(n) ==                \* files objects of n documents, ids 1..n
    IF n = 0 THEN {<< >>}
    ELSE { Append(f, [id |-> n, name |-> name, content |-> content]) :
             f \in RoundTripStores(n - 1), name \in RoundTripNames,
             content \in SyncContents }

RoundTripInit ==
    /\ \E n \in 1..MaxFiles : files \in RoundTripStores(n)
    /\ activeFileId = Keys(files)[1]
    /\ markdownInput = files[1].content
    /\ op = Operation("initializeFiles", Null, Null)
    /\ ret = Undefined
    /\ remote \in NoteRemotes
    /\ NothingInFlight
    /\ Configured
    /\ sanitizeCalls = << >>
    /\ loadBefore = NoneBefore
    /\ listeners = 1
    /\ NothingStored

RoundTripSync == syncPc = "idle" /\ loadPc = "idle" /\ SyncClick
RoundTripLoad == syncPc = "done" /\ loadPc = "idle" /\ LoadClick

RoundTripNext ==
    \/ RoundTripSync
    \/ SyncRead
    \/ SyncWrite
    \/ RoundTripLoad
    \/ LoadList
    \/ LoadRead

SpecRoundTrip == RoundTripInit /\ [][RoundTripNext]_vars

SyncedIds == {syncEntries[k] : k \in 1..Len(syncEntries)}

----------------------------------------------------------------------------
(* Startup: initializeFiles on what localStorage holds *)

Storage(savedFiles, savedActiveFileId, savedInput) ==
    [markdownFiles |-> savedFiles, markdownActiveFileId |-> savedActiveFileId,
     markdownInputContent |-> savedInput]

\* The page before line 1400: `files = {}`, `activeFileId = null`.
StartupInit ==
    /\ \E savedFiles \in StoredFiles \cup {NullItem},
          savedActiveFileId \in StoredActiveFileId, savedInput \in StoredInput :
          localStorage = Storage(savedFiles, savedActiveFileId, savedInput)
    /\ files = << >>
    /\ activeFileId = Null
    /\ markdownInput = EmptyString
    /\ op = Operation("load", Null, Null)
    /\ ret = Undefined
    /\ saveTimer = Null
    /\ remote = EmptyRemote
    /\ NothingInFlight
    /\ Configured
    /\ sanitizeCalls = << >>
    /\ loadBefore = NoneBefore
    /\ listeners = 1

InitializeFiles ==
    \E now \in Clock :
        /\ op.name = "load"
        /\ StoreBecomes(initializeFiles(localStorage.markdownFiles,
                                        localStorage.markdownActiveFileId,
                                        localStorage.markdownInputContent,
                                        markdownInput, now))
        /\ StoreStep(Operation("initializeFiles", Null, now),
                     IF initializeFilesThrows(localStorage.markdownFiles)
                     THEN JsThrow ELSE Undefined)

StartupNext == InitializeFiles

SpecStartup == StartupInit /\ [][StartupNext]_vars

\* C14: when the stored markdownFiles cannot be restored as a document
\* collection (text JSON.parse rejects, or the text "null"), initializeFiles
\* does not throw and leaves exactly one document, named "New File", with the
\* legacy content if there is one and empty otherwise, which is active.
C14_CorruptStorageSeedsNewFile ==
    (op.name = "initializeFiles"
     /\ localStorage.markdownFiles.kind \in {"garbage", "null"})
        => /\ ret # JsThrow
           /\ Len(files) = 1
           /\ files[1].name = NewFileName
           /\ files[1].content =
                 (IF ItemTruthy(localStorage.markdownInputContent)
                  THEN localStorage.markdownInputContent.value ELSE EmptyString)
           /\ activeFileId = files[1].id
           /\ markdownInput = files[1].content

----------------------------------------------------------------------------
(* One Sync or one Load, while the token and the repository are set and    *)
(* cleared in the GitHub modal: script.js:1662-1705                        *)

ConfigInit ==
    /\ \E n \in 1..MaxFiles : files \in SyncStores(n)
    /\ activeFileId = Keys(files)[1]
    /\ markdownInput = files[1].content
    /\ op = Operation("initializeFiles", Null, Null)
    /\ ret = Undefined
    /\ remote \in NoteRemotes
    /\ NothingInFlight
    /\ sanitizeCalls = << >>
    /\ loadBefore = NoneBefore
    /\ listeners = 1
    /\ NothingStored
    /\ token \in BOOLEAN
    /\ repository \in BOOLEAN

SaveToken ==
    /\ token' = TRUE
    /\ op' = Operation("setToken", Null, Null)
    /\ UNCHANGED <<files, activeFileId, markdownInput, ret, remote, http, syncVars,
                   loadVars, pureVars, persistVars, repository>>

ClearToken ==
    /\ token' = FALSE
    /\ op' = Operation("clearToken", Null, Null)
    /\ UNCHANGED <<files, activeFileId, markdownInput, ret, remote, http, syncVars,
                   loadVars, pureVars, persistVars, repository>>

SaveRepository ==
    /\ repository' = TRUE
    /\ op' = Operation("setRepository", Null, Null)
    /\ UNCHANGED <<files, activeFileId, markdownInput, ret, remote, http, syncVars,
                   loadVars, pureVars, persistVars, token>>

ConfigSync == syncPc = "idle" /\ loadPc = "idle" /\ SyncClick
ConfigLoad == syncPc = "idle" /\ loadPc = "idle" /\ LoadClick

ConfigNext ==
    \/ SaveToken
    \/ ClearToken
    \/ SaveRepository
    \/ ConfigSync
    \/ SyncRead
    \/ SyncWrite
    \/ ConfigLoad
    \/ LoadList
    \/ LoadRead

SpecConfig == ConfigInit /\ [][ConfigNext]_vars

ConfigErrors == {TokenNotSet, RepositoryNotConfigured}

\* C15: a Sync or Load clicked without token or repository sends nothing and
\* lists no file, an invocation starts only when both are set, and no
\* document or file is ever listed in failed with the error of a missing
\* token or repository, also when the token is cleared during an invocation.
C15_ConfigErrorIsNeverPerFile ==
    [][/\ op'.name \in {"syncAlert", "loadAlert"}
          => (~(token /\ repository) /\ UNCHANGED <<syncVars, loadVars, http, remote>>)
       /\ op'.name \in {"syncToGitHub", "loadFromGitHub"} => (token /\ repository)
       /\ \A k \in 1..Len(results'.failed) : results'.failed[k].error \notin ConfigErrors
       /\ \A k \in 1..Len(loadResults'.failed) :
             loadResults'.failed[k].error \notin ConfigErrors]_vars

----------------------------------------------------------------------------
(* Clicks on Sync and Load while an invocation is awaited: the handlers of  *)
(* script.js:1708-1791 start a new invocation on every click.               *)

\* One document, "todo", and a branch that holds todo.md or nothing.
OverlapStores == {f \in SyncStores(1) : f[1].name = NameTodo}
OverlapRemotes == {r \in NoteRemotes : DOMAIN r \subseteq {PathTodo}}

OverlapInit ==
    /\ files \in OverlapStores
    /\ activeFileId = Keys(files)[1]
    /\ markdownInput = files[1].content
    /\ op = Operation("initializeFiles", Null, Null)
    /\ ret = Undefined
    /\ remote \in OverlapRemotes
    /\ NothingInFlight
    /\ Configured
    /\ sanitizeCalls = << >>
    /\ loadBefore = NoneBefore
    /\ listeners = 1
    /\ NothingStored

OtherSyncBecomes(sy) ==
    /\ syncOther' = sy
    /\ UNCHANGED <<syncPc, syncEntries, syncIndex, syncOverwrite, syncFileName,
                   syncSha, syncRequest, results>>

\* A click on Sync, whatever else is under way.
OtherSyncClick ==
    \E overwrite \in BOOLEAN :
        /\ syncOther.pc = "idle"
        /\ token /\ repository
        /\ OtherSyncBecomes(syncToGitHub(files, overwrite))
        /\ op' = Operation("syncToGitHub", Null, Null)
        /\ UNCHANGED <<files, activeFileId, markdownInput, ret, remote, http, loadVars,
                       pureVars, persistVars, configVars>>

OtherSyncRead ==
    \E fault \in Faults :
        /\ syncOther.pc = "read"
        /\ LET response == RemoteGet(remote, syncOther.request, fault)
           IN  /\ OtherSyncBecomes(issued(afterRead(syncOther, files, readFile(response)),
                                           files, token, repository))
               /\ http' = [request |-> syncOther.request, response |-> response]
        /\ op' = Operation("otherSyncRead", syncOther.entries[syncOther.index], Null)
        /\ UNCHANGED <<files, activeFileId, markdownInput, ret, remote, loadVars,
                       pureVars, persistVars, configVars>>

OtherSyncWrite ==
    \E fault \in Faults :
        /\ syncOther.pc = "write"
        /\ LET response == RemotePut(remote, syncOther.request, fault)
           IN  /\ OtherSyncBecomes(issued(afterWrite(syncOther, files, writeFile(response)),
                                           files, token, repository))
               /\ remote' = RemoteAfterPut(remote, syncOther.request, response)
               /\ http' = [request |-> syncOther.request, response |-> response]
        /\ op' = Operation("otherSyncWrite", syncOther.entries[syncOther.index], Null)
        /\ UNCHANGED <<files, activeFileId, markdownInput, ret, loadVars,
                       pureVars, persistVars, configVars>>

OverlapSync == syncPc = "idle" /\ SyncClick
OverlapLoad == loadPc = "idle" /\ LoadClick

OverlapNext ==
    \/ OverlapSync
    \/ SyncRead
    \/ SyncWrite
    \/ OtherSyncClick
    \/ OtherSyncRead
    \/ OtherSyncWrite
    \/ OverlapLoad
    \/ LoadList
    \/ LoadRead

SpecOverlap == OverlapInit /\ [][OverlapNext]_vars

InProgress ==
    (IF syncPc \in {"read", "write"} THEN 1 ELSE 0)
    + (IF syncOther.pc \in {"read", "write"} THEN 1 ELSE 0)
    + (IF loadPc \in {"listing", "read"} THEN 1 ELSE 0)

\* C16: at most one invocation of syncToGitHub or loadFromGitHub is under way
\* at any time, and the sha an invocation of syncToGitHub sends with a write
\* is the sha of the remote file when the write arrives.
C16_InvocationsAreSerialized ==
    /\ InProgress <= 1
    /\ (syncPc = "write" /\ syncRequest.sha # NoSha)
          => /\ syncFileName \in DOMAIN remote
             /\ syncRequest.sha = BlobSha(remote[syncFileName].bytes)

----------------------------------------------------------------------------
(* The order of requests and results, under SpecRoundTrip *)

Position(order, x) == CHOOSE k \in 1..Len(order) : order[k] = x

\* The entries of `list` follow one another as their keys do in `order`.
InOrder(list, Key(_), order) ==
    \A a, b \in 1..Len(list) :
        a < b => Position(order, Key(list[a])) < Position(order, Key(list[b]))

ListedPaths == [k \in 1..Len(markdownFiles) |-> markdownFiles[k].path]

\* C17: an invocation has one request in flight at most, which is that of
\* the file its loop is at; the files before it have their result and the
\* others have none; the loop takes the files in the order of
\* Object.entries(localFiles), or of the listing, and every result list is
\* in that order.
C17_OneRequestInIterationOrder ==
    /\ (syncPc \in {"read", "write"}) = (syncRequest # NoRequest)
    /\ (loadPc \in {"listing", "read"}) = (loadRequest # NoRequest)
    /\ ~(syncRequest # NoRequest /\ loadRequest # NoRequest)
    /\ syncPc # "idle" => syncEntries = SubSeq(Keys(files), 1, Len(syncEntries))
    /\ syncPc \in {"read", "write"}
          => /\ syncIndex \in 1..Len(syncEntries)
             /\ syncRequest.method = (IF syncPc = "read" THEN "GET" ELSE "PUT")
             /\ syncRequest.path =
                   sanitizeFileName(Get(files, syncEntries[syncIndex]).name) \o DotMd
    /\ {results.success[k].id : k \in 1..Len(results.success)}
          \cup {results.failed[k].id : k \in 1..Len(results.failed)}
          \cup {results.skipped[k].id : k \in 1..Len(results.skipped)}
          = {syncEntries[k] : k \in 1..(syncIndex - 1)}
    /\ InOrder(results.success, LAMBDA e : e.id, syncEntries)
    /\ InOrder(results.failed, LAMBDA e : e.id, syncEntries)
    /\ InOrder(results.skipped, LAMBDA e : e.id, syncEntries)
    /\ loadPc = "listing" => loadRequest = readFileRequest(EmptyString)
    /\ loadPc = "read"
          => /\ loadIndex \in 1..Len(markdownFiles)
             /\ loadRequest = readFileRequest(markdownFiles[loadIndex].path)
    /\ {loadResults.success[k].path : k \in 1..Len(loadResults.success)}
          \cup {loadResults.failed[k].path : k \in 1..Len(loadResults.failed)}
          = {markdownFiles[k].path : k \in 1..(loadIndex - 1)}
    /\ InOrder(loadResults.success, LAMBDA e : e.path, ListedPaths)
    /\ InOrder(loadResults.failed, LAMBDA e : e.path, ListedPaths)
    /\ InOrder(loadCalls, LAMBDA e : e.path, ListedPaths)

\* A Sync has written two documents and the Load after it has handed two
\* files to the callback.
C17_Witness ==
    /\ loadPc = "done"
    /\ Len(results.success) = 2
    /\ Len(loadResults.success) = 2
    /\ Len(loadCalls) = 2

----------------------------------------------------------------------------
(* The page from startup to teardown: the store operations, the clock of   *)
(* the debounce timeout, the debounced save and the beforeunload handler.  *)

PersistStoredFiles ==
    {NoItem, JsonItem(<< >>)}
    \cup {JsonItem(<<[id |-> 1, name |-> name, content |-> EmptyString]>>) :
             name \in StoreNames}
PersistStoredActiveFileId == {NoItem, TextItem(NumberToString(1))}

PersistInit ==
    \E savedFiles \in PersistStoredFiles,
       savedActiveFileId \in PersistStoredActiveFileId, now \in Clock :
        LET st == initializeFiles(savedFiles, savedActiveFileId, NoItem,
                                  EmptyString, now)
        IN  /\ files = st.files
            /\ activeFileId = st.activeFileId
            /\ markdownInput = st.markdownInput
            /\ op = Operation("initializeFiles", Null, now)
            /\ ret = Undefined
            /\ localStorage = Storage(savedFiles, savedActiveFileId, NoItem)
            /\ saveTimer = Null
            /\ remote = EmptyRemote
            /\ NothingInFlight
            /\ Configured
            /\ sanitizeCalls = << >>
            /\ loadBefore = NoneBefore
            /\ listeners = 1

\* The page is open: its handlers run until beforeunload has run.
Running == op.name # "beforeunload"

PersistStep(operation) ==
    /\ op' = operation
    /\ ret' = Undefined
    /\ UNCHANGED <<remote, http, syncVars, loadVars, pureVars, configVars>>

\* One tick of the clock while the timeout is pending and not yet due.
Tick ==
    /\ Running
    /\ saveTimer # Null
    /\ saveTimer > 1
    /\ saveTimer' = saveTimer - 1
    /\ PersistStep(Operation("tick", Null, Null))
    /\ UNCHANGED <<files, activeFileId, markdownInput, localStorage>>

\* The tick at which the timeout is due: the debounced function runs.
SaveTimeout ==
    /\ Running
    /\ saveTimer = 1
    /\ saveTimer' = Null
    /\ localStorage' = saveInput(Current, localStorage)
    /\ PersistStep(Operation("saveInput", Null, Null))
    /\ UNCHANGED <<files, activeFileId, markdownInput>>

\* The page is closed: the beforeunload handler runs and the timeout dies.
Beforeunload ==
    /\ Running
    /\ StoreBecomes(beforeunloadStore(Current))
    /\ localStorage' = beforeunload(Current, localStorage)
    /\ saveTimer' = Null
    /\ PersistStep(Operation("beforeunload", Null, Null))

PersistCreate == Running /\ CreateNewFile
PersistSwitch == Running /\ SwitchToFile
PersistDelete == Running /\ DeleteFile
PersistRename == Running /\ RenameFile
PersistInput == Running /\ InputEvent
PersistPull == Running /\ FileProcessor

PersistNext ==
    \/ PersistCreate
    \/ PersistSwitch
    \/ PersistDelete
    \/ PersistRename
    \/ PersistInput
    \/ PersistPull
    \/ Tick
    \/ SaveTimeout
    \/ Beforeunload

SpecPersist == PersistInit /\ [][PersistNext]_vars

\* Durable storage holds the documents `f` and the active id `a`.
Holds(storage, f, a) ==
    /\ storage.markdownFiles = JsonItem(f)
    /\ IF a = Null THEN ~ItemTruthy(storage.markdownActiveFileId)
       ELSE storage.markdownActiveFileId = TextItem(NumberToString(a))

\* C18: each content edit resets the debounce timeout to the full interval;
\* while edits come with gaps shorter than the interval nothing is written;
\* the one write comes when the interval has run out after the last edit,
\* leaves no timeout pending, and durable storage then holds the documents
\* and the active id as they are at that moment.
C18_DebounceResetsAndWritesLiveStore ==
    [][ /\ op'.name = "input" => saveTimer' = SaveDelay
        /\ op'.name = "tick"
              => saveTimer' = saveTimer - 1 /\ saveTimer' >= 1
        /\ op'.name \notin {"saveInput", "beforeunload"}
              => localStorage' = localStorage
        /\ op'.name \notin {"input", "tick", "saveInput", "beforeunload"}
              => saveTimer' = saveTimer
        /\ op'.name = "saveInput"
              => /\ saveTimer = 1
                 /\ saveTimer' = Null
                 /\ Holds(localStorage', files', activeFileId')
      ]_vars

MutatingOperations ==
    {"createNewFile", "deleteFile", "renameFile", "switchToFile", "input",
     "fileProcessor"}

\* C19: every operation of the store that changes a document or the active
\* id (create, delete, rename, switch, content edit, pull upsert) schedules
\* the debounced save: after it a timeout of the full interval is pending,
\* so that the store as it is after the operation reaches durable storage
\* when the interval has passed without another mutation.
C19_EveryMutationSchedulesSave ==
    [][ (op'.name \in MutatingOperations
         /\ <<files, activeFileId>>' # <<files, activeFileId>>)
            => saveTimer' = SaveDelay ]_vars

\* C20: when the page has been closed, in whatever state it was, the editor
\* buffer is the content of the active document and durable storage holds
\* the documents and the active id of the store.
C20_TeardownAlwaysSaves ==
    op.name = "beforeunload"
        => /\ Holds(localStorage, files, activeFileId)
           /\ activeFileId # Null
                 => /\ Has(files, activeFileId)
                    /\ Get(files, activeFileId).content = markdownInput

----------------------------------------------------------------------------
(* writeFile and readFile of GitHubAPI against one path of the branch *)

MaxText == 2        \* characters of a content that is written

CodecAlphabet == {120, 233, 8364}    \* "x", U+00E9 and U+20AC: 1, 2 and 3 bytes

RECURSIVE Texts(_)
Texts(n) ==                          \* the texts of at most n characters
    IF n = 0 THEN {EmptyString}
    ELSE Texts(n - 1) \cup {Append(t, c) : t \in Texts(n - 1), c \in CodecAlphabet}

CodecContents == Texts(MaxText)

CodecInit ==
    /\ LET st == initializeFiles(NoItem, NoItem, NoItem, EmptyString, 1)
       IN  /\ files = st.files
           /\ activeFileId = st.activeFileId
           /\ markdownInput = st.markdownInput
    /\ op = [name |-> "initializeFiles", content |-> EmptyString]
    /\ ret = Undefined
    /\ remote = EmptyRemote
    /\ NothingInFlight
    /\ Configured
    /\ sanitizeCalls = << >>
    /\ loadBefore = NoneBefore
    /\ listeners = 1
    /\ NothingStored

\* writeFile(PathTodo, content, message, sha), with the sha a caller can have.
WriteFile ==
    \E content \in CodecContents, fault \in Faults,
       sha \in {NoSha} \cup {BlobSha(remote[p].bytes) : p \in DOMAIN remote} :
        LET request == writeFileRequest(PathTodo, content, sha)
            response == RemotePut(remote, request, fault)
        IN  /\ remote' = RemoteAfterPut(remote, request, response)
            /\ http' = [request |-> request, response |-> response]
            /\ op' = [name |-> "writeFile",
                      content |-> IF response.status = "ok" THEN content
                                  ELSE op.content]
            /\ ret' = writeFile(response)
            /\ UNCHANGED <<files, activeFileId, markdownInput, syncVars, loadVars,
                           pureVars, persistVars, configVars>>

\* readFile(PathTodo); `op.content` is the content of the last write that
\* succeeded.
ReadFile ==
    \E fault \in Faults :
        LET request == readFileRequest(PathTodo)
            response == RemoteGet(remote, request, fault)
        IN  /\ http' = [request |-> request, response |-> response]
            /\ op' = [name |-> "readFile", content |-> op.content]
            /\ ret' = readFile(response)
            /\ UNCHANGED <<files, activeFileId, markdownInput, remote, syncVars,
                           loadVars, pureVars, persistVars, configVars>>

CodecNext == WriteFile \/ ReadFile

SpecCodec == CodecInit /\ [][CodecNext]_vars

\* C21: a readFile that reaches the server after a writeFile that succeeded
\* returns the written content, whatever its characters, with the version
\* marker of the file.
C21_WriteThenReadReturnsContent ==
    (op.name = "readFile" /\ PathTodo \in DOMAIN remote
     /\ http.response.status \notin {"transport", "api"})
        => /\ ret.ok
           /\ ret.content = op.content
           /\ ret.sha = BlobSha(remote[PathTodo].bytes)

----------------------------------------------------------------------------
(* The operations of the document store, one by one (SpecStore) *)

\* C22: deleteFile(id) on a store of two documents or more removes the entry
\* id and nothing else, every other document keeping its place, name and
\* content; when id was active the first remaining document becomes active
\* and its content is in the editor; otherwise activeFileId and the editor
\* are as before.
C22_DeleteRemovesOneAndReselects ==
    [][ (op'.name = "deleteFile" /\ Len(files) >= 2)
          => LET id == op'.fileId
             IN  /\ KeySet(files') = KeySet(files) \ {id}
                 /\ files' = SelectSeq(files, LAMBDA d : d.id # id)
                 /\ activeFileId = id
                       => /\ activeFileId' = files'[1].id
                          /\ markdownInput' = files'[1].content
                 /\ activeFileId # id
                       => /\ activeFileId' = activeFileId
                          /\ markdownInput' = markdownInput
      ]_vars

\* Document 1 has been deleted and document 2, the one that remains, is
\* active with its content in the editor.
C22_Witness ==
    /\ op.name = "deleteFile"
    /\ op.fileId = 1
    /\ KeySet(files) = {2}
    /\ activeFileId = 2
    /\ markdownInput = files[1].content
    /\ files[1].content = TextX

\* C23: switchToFile(id) with the id of a document first makes the editor
\* buffer the content of the document that was active, if there was one,
\* then makes id active and puts its content in the editor; no document is
\* added, removed, moved or renamed, and no other content changes.
C23_SwitchSavesThenLoads ==
    [][ (op'.name = "switchToFile" /\ Has(files, op'.fileId))
          => LET id == op'.fileId
                 wasActive == Truthy(activeFileId) /\ Has(files, activeFileId)
             IN  /\ Len(files') = Len(files)
                 /\ \A i \in 1..Len(files) :
                       /\ files'[i].id = files[i].id
                       /\ files'[i].name = files[i].name
                       /\ files'[i].content =
                             (IF wasActive /\ files[i].id = activeFileId
                              THEN markdownInput ELSE files[i].content)
                 /\ activeFileId' = id
                 /\ markdownInput' = Get(files', id).content
      ]_vars

\* Document 2 has been switched to; document 1, which was left, holds the
\* text of the editor, which its content in an earlier state was not.
C23_Witness ==
    /\ op.name = "switchToFile"
    /\ op.fileId = 2
    /\ activeFileId = 2
    /\ Len(files) = 2
    /\ files[1].id = 1
    /\ files[1].content = TextX
    /\ files[2].content = EmptyString
    /\ markdownInput = EmptyString

----------------------------------------------------------------------------
(* The two places a rename is entered: the rename modal and the tab that   *)
(* is edited in place.  script.js:305-319 and 1333-1377.                   *)

Ampersand == <<38>>                              \* "&"
LessThan == <<60>>                               \* "<"
GreaterThan == <<62>>                            \* ">"
RefLt == <<38, 108, 116>>                        \* "&lt"
RefGt == <<38, 103, 116>>                        \* "&gt"
RefAmp == <<38, 97, 109, 112>>                   \* "&amp"
NameLtReference == <<38, 108, 116, 59>>          \* "&lt;"

StartsWith(s, prefix) ==
    Len(s) >= Len(prefix) /\ SubSeq(s, 1, Len(prefix)) = prefix

\* The rest of `s` after a character reference, with its ";" if it has one.
AfterReference(s, ref) ==
    LET rest == SubSeq(s, Len(ref) + 1, Len(s))
    IN  IF rest # << >> /\ Head(rest) = 59 THEN Tail(rest) ELSE rest

(* textContent of the span createTabElement builds with innerHTML from     *)
(* file.name (script.js:337): the references lt, gt and amp are decoded.   *)
(* For names without a tag and without another reference.                  *)
RECURSIVE textContent(_)
textContent(name) ==
    IF name = << >> THEN << >>
    ELSE IF StartsWith(name, RefAmp)
         THEN Ampersand \o textContent(AfterReference(name, RefAmp))
    ELSE IF StartsWith(name, RefLt)
         THEN LessThan \o textContent(AfterReference(name, RefLt))
    ELSE IF StartsWith(name, RefGt)
         THEN GreaterThan \o textContent(AfterReference(name, RefGt))
    ELSE <<Head(name)>> \o textContent(Tail(name))

(* handleRenameConfirm: script.js:305-312 *)
handleRenameConfirm(st, fileId, value) ==
    LET newName == Trim(value)
    IN  IF newName # EmptyString /\ Has(st.files, fileId)
        THEN renameFile(st, fileId, newName)
        ELSE st

(* finishEditing: script.js:1358-1363 *)
finishEditing(st, fileId, currentName, value) ==
    LET trimmed == Trim(value)
        newName == IF trimmed # EmptyString THEN trimmed ELSE currentName
    IN  renameFile(st, fileId, newName)

\* What is typed into the name field.
TypedNames ==
    {EmptyString, <<32>>, NameTodo, <<32>> \o NameTodo \o <<32>>, NameLtReference}

RenameInit ==
    /\ LET st == initializeFiles(NoItem, NoItem, NoItem, EmptyString, 1)
       IN  /\ files = st.files
           /\ activeFileId = st.activeFileId
           /\ markdownInput = st.markdownInput
    /\ op = [name |-> "initializeFiles", fileId |-> Null, now |-> 1,
             value |-> EmptyString]
    /\ ret = Undefined
    /\ remote = EmptyRemote
    /\ NothingInFlight
    /\ Configured
    /\ sanitizeCalls = << >>
    /\ loadBefore = NoneBefore
    /\ listeners = 1
    /\ NothingStored

RenameStep(name, fileId, now, value) ==
    /\ op' = [name |-> name, fileId |-> fileId, now |-> now, value |-> value]
    /\ ret' = Undefined
    /\ UNCHANGED <<remote, http, syncVars, loadVars, pureVars, persistVars, configVars>>

(* The add-tab button: script.js:1301-1311 *)
AddTab ==
    \E now \in Clock :
        /\ Len(files) < MaxFiles
        /\ StoreBecomes(switchToFile(
               createNewFile(Current, NewFileName, EmptyString, now),
               generateUniqueFileId(files, now)))
        /\ RenameStep("addTab", Null, now, EmptyString)

(* A click on a tab that is not the active one: script.js:1313-1331 *)
TabClick ==
    \E fileId \in KeySet(files) \ {activeFileId} :
        /\ StoreBecomes(switchToFile(Current, fileId))
        /\ RenameStep("switchToFile", fileId, Null, EmptyString)

(* A click on the close button of a tab *)
TabClose ==
    \E fileId \in KeySet(files) :
        /\ StoreBecomes(deleteFile(Current, fileId))
        /\ RenameStep("deleteFile", fileId, Null, EmptyString)

(* A click on the active tab opens the modal; a name is typed and confirmed. *)
ModalRename ==
    \E value \in TypedNames :
        /\ Has(files, activeFileId)
        /\ StoreBecomes(handleRenameConfirm(Current, activeFileId, value))
        /\ RenameStep("handleRenameConfirm", activeFileId, Null, value)

(* A double click on a tab that is not active, a name typed, then blur or Enter. *)
InlineRename ==
    \E fileId \in KeySet(files) \ {activeFileId}, value \in TypedNames :
        /\ StoreBecomes(finishEditing(Current, fileId,
                                      textContent(Get(files, fileId).name), value))
        /\ RenameStep("finishEditing", fileId, Null, value)

RenameNext == AddTab \/ TabClick \/ TabClose \/ ModalRename \/ InlineRename

SpecRename == RenameInit /\ [][RenameNext]_vars

\* C24: a rename entered through the modal or in a tab leaves every document
\* as it is when the id is unknown or the name typed is empty after
\* trimming; otherwise the document id, and it alone, gets the trimmed name,
\* and keeps its id and content.
C24_RenameTrimsOrLeavesNames ==
    [][ op'.name \in {"handleRenameConfirm", "finishEditing"}
          => LET id == op'.fileId
                 newName == Trim(op'.value)
             IN  /\ <<activeFileId, markdownInput>>' = <<activeFileId, markdownInput>>
                 /\ Len(files') = Len(files)
                 /\ \A i \in 1..Len(files) :
                       /\ files'[i].id = files[i].id
                       /\ files'[i].content = files[i].content
                       /\ files'[i].name =
                             (IF files[i].id = id /\ newName # EmptyString
                              THEN newName ELSE files[i].name)
      ]_vars

----------------------------------------------------------------------------
(* Further properties of syncToGitHub and of the Load handler *)

\* C25: without overwrite, no step of syncToGitHub changes a file the branch
\* holds: after a read or a write of the invocation every path that existed
\* before it exists still, with the same bytes and hence the same version
\* marker, whatever the answer to the existence read was.
C25_NoOverwriteKeepsRemoteFiles ==
    [][ (op'.name \in {"syncToGitHub", "syncRead", "syncWrite"} /\ ~syncOverwrite')
          => \A p \in DOMAIN remote :
                p \in DOMAIN remote' /\ remote'[p] = remote[p]
      ]_vars

\* An invocation without overwrite has returned; the read of a file that
\* exists had failed, the write was sent without a marker and was refused.
C25_Witness ==
    /\ syncPc = "done"
    /\ ~syncOverwrite
    /\ \E k \in 1..Len(results.failed) :
          /\ results.failed[k].error = ErrorMessage("unprocessable")
          /\ (sanitizeFileName(results.failed[k].name) \o DotMd) \in DOMAIN remote

----------------------------------------------------------------------------
(* Two Syncs without overwrite, one after the other, with no other client  *)
(* of the repository and no change of the store.                           *)

FirstSync ==
    /\ syncPc = "idle"
    /\ SyncBecomes(syncToGitHub(files, FALSE))
    /\ op' = Operation("syncToGitHub", Null, Null)
    /\ UNCHANGED <<syncOther, files, activeFileId, markdownInput, ret, remote, http,
                   loadVars, pureVars, persistVars, configVars>>

\* The click after the first invocation has returned; `syncOther` keeps
\* that invocation, with its results.
SecondSync ==
    /\ syncPc = "done"
    /\ syncOther = NoSync
    /\ syncOther' = Sync
    /\ SyncBecomes(syncToGitHub(files, FALSE))
    /\ op' = Operation("syncToGitHub", Null, Null)
    /\ UNCHANGED <<files, activeFileId, markdownInput, ret, remote, http,
                   loadVars, pureVars, persistVars, configVars>>

TwiceNext == FirstSync \/ SecondSync \/ SyncRead \/ SyncWrite

SpecTwice == PushInit /\ [][TwiceNext]_vars

\* The documents the first invocation reported in success.
SucceededBefore ==
    {syncOther.results.success[k].id : k \in 1..Len(syncOther.results.success)}

\* C26: in the second of two Syncs without overwrite, the existence read of
\* a document the first Sync reported in success, once the server has
\* answered it, puts the document in skipped with reason "exists" and is
\* followed by no write for it, whatever the content of the document.
C26_SecondPushSkips ==
    [][ (/\ op'.name = "syncRead"
         /\ syncOther.pc = "done"
         /\ op'.fileId \in SucceededBefore
         /\ http'.response.status \notin {"transport", "api"})
          => /\ syncPc' # "write" \/ syncIndex' # syncIndex
             /\ results'.skipped =
                   Append(results.skipped,
                          [id |-> op'.fileId, name |-> Get(files, op'.fileId).name,
                           reason |-> "exists"])
      ]_vars

----------------------------------------------------------------------------
(* Two Loads, one after the other, against a branch nobody else changes    *)
(* and with no edit of the store in between.                               *)

RepullRemotes ==                     \* notes, among them one whose name is ".md"
    UNION { [paths -> RemoteFiles] : paths \in SUBSET {PathTodo, DotMd} }

RepullInit ==
    /\ files \in SyncStores(1)
    /\ activeFileId = Keys(files)[1]
    /\ markdownInput = files[1].content
    /\ op = Operation("initializeFiles", Null, Null)
    /\ ret = Undefined
    /\ remote \in RepullRemotes
    /\ NothingInFlight
    /\ Configured
    /\ sanitizeCalls = << >>
    /\ loadBefore = NoneBefore
    /\ listeners = 1
    /\ NothingStored

FirstLoad ==
    /\ loadPc = "idle"
    /\ LoadBecomes(loadFromGitHub)
    /\ op' = Operation("loadFromGitHub", Null, Null)
    /\ UNCHANGED <<files, activeFileId, markdownInput, ret, remote, http, syncVars,
                   pureVars, persistVars, configVars>>

\* The click after the first Load has returned; `loadBefore` keeps what it
\* left.
SecondLoad ==
    /\ loadPc = "done"
    /\ loadBefore = NoneBefore
    /\ listeners = 1
    /\ loadBefore' = [taken |-> TRUE, files |-> files, results |-> loadResults]
    /\ LoadBecomes(loadFromGitHub)
    /\ op' = Operation("loadFromGitHub", Null, Null)
    /\ UNCHANGED <<files, activeFileId, markdownInput, ret, remote, http, syncVars,
                   sanitizeCalls, listeners, persistVars, configVars>>

RepullNext == FirstLoad \/ SecondLoad \/ LoadList \/ LoadRead

SpecRepull == RepullInit /\ [][RepullNext]_vars

\* C27: when a Load that read every markdown file of the branch is followed
\* by a second Load, the second one adds no document and leaves the name
\* and the content of every document as the first one left them, whatever
\* the names of the files, ".md" included.
C27_SecondPullChangesNothing ==
    (loadBefore.taken /\ loadBefore.results.failed = << >>)
        => /\ Len(files) = Len(loadBefore.files)
           /\ \A i \in 1..Len(loadBefore.files) :
                 /\ files[i].id = loadBefore.files[i].id
                 /\ files[i].name = loadBefore.files[i].name
                 /\ files[i].content = loadBefore.files[i].content

----------------------------------------------------------------------------
(* One Load, with the events of the page that can run while it awaits a    *)
(* response: input, a click on another tab, and the closing of the page.   *)

NameNewFile == sanitizeFileName(NewFileName)     \* "new-file", as a pull names it
RaceNames == {NameNewFile, NameTodo}

RECURSIVE RaceStores(_)
RaceStores(n) ==                     \* files objects of n documents, ids 1..n
    IF n = 0 THEN {<< >>}
    ELSE { Append(f, [id |-> n, name |-> name, content |-> content]) :
             f \in RaceStores(n - 1), name \in RaceNames, content \in SyncContents }

RaceInit ==
    /\ \E n \in 1..MaxFiles : files \in RaceStores(n)
    /\ activeFileId = Keys(files)[1]
    /\ markdownInput = files[1].content
    /\ op = Operation("initializeFiles", Null, Null)
    /\ ret = Undefined
    /\ remote \in NoteRemotes
    /\ NothingInFlight
    /\ Configured
    /\ sanitizeCalls = << >>
    /\ loadBefore = NoneBefore
    /\ listeners = 1
    /\ localStorage = Storage(NoItem, NoItem, NoItem)
    /\ saveTimer = Null

RaceLoad == Running /\ loadPc = "idle" /\ LoadClick
RaceList == Running /\ LoadList
RaceRead == Running /\ LoadRead
RaceInput == Running /\ InputEvent
RaceSwitch ==
    /\ Running
    /\ \E fileId \in KeySet(files) \ {activeFileId} :
          /\ StoreBecomes(switchToFile(Current, fileId))
          /\ StoreStep(Operation("switchToFile", fileId, Null), Undefined)

RaceNext ==
    \/ RaceLoad
    \/ RaceList
    \/ RaceRead
    \/ RaceInput
    \/ RaceSwitch
    \/ Beforeunload

SpecRace == RaceInit /\ [][RaceNext]_vars

\* The active document holds a content this Load has written into it.
PulledIntoActive ==
    /\ Has(files, activeFileId)
    /\ \E k \in 1..Len(loadCalls) :
          /\ FirstNamed(files, StripMd(loadCalls[k].path)) = IndexOf(files, activeFileId)
          /\ Get(files, activeFileId).content = loadCalls[k].content

\* C28: a content the Load has written into the active document is not
\* replaced by the text of an editor that has not been refreshed since,
\* whether the next event is an input, a switch to another tab or the
\* closing of the page; and when the Load has returned the editor holds the
\* content of the active document.
C28_PulledContentSurvivesStaleEditor ==
    [][ /\ (/\ PulledIntoActive
            /\ markdownInput # Get(files, activeFileId).content
            /\ op'.name \in {"input", "switchToFile", "beforeunload"})
              => Get(files', activeFileId).content = Get(files, activeFileId).content
        /\ (op'.name \in {"loadList", "loadRead"} /\ loadPc' = "done"
            /\ Has(files', activeFileId'))
              => markdownInput' = Get(files', activeFileId').content
      ]_vars

----------------------------------------------------------------------------
(* The GitHub modal: every opening runs setupGitHubModalEvents on the same *)
(* element, and a click on Sync runs every listener the button has.        *)

MaxOpens == 2       \* openings of the modal, and invocations one click can start

ModalInit ==
    /\ files \in OverlapStores
    /\ activeFileId = Keys(files)[1]
    /\ markdownInput = files[1].content
    /\ op = Operation("initializeFiles", Null, Null)
    /\ ret = Undefined
    /\ remote \in OverlapRemotes
    /\ NothingInFlight
    /\ Configured
    /\ sanitizeCalls = << >>
    /\ loadBefore = NoneBefore
    /\ listeners = 0
    /\ NothingStored

(* showGitHubModal: script.js:1502-1516, 1644 and 1708 *)
ShowGitHubModal ==
    /\ listeners < MaxOpens
    /\ listeners' = listeners + 1
    /\ op' = Operation("showGitHubModal", Null, Null)
    /\ UNCHANGED <<files, activeFileId, markdownInput, ret, remote, http, syncVars,
                   loadVars, sanitizeCalls, loadBefore, persistVars, configVars>>

\* One click on Sync while no invocation is under way: each listener runs
\* as far as its first await, the second after the first.
SyncActivation ==
    /\ listeners >= 1
    /\ syncPc \in {"idle", "done"}
    /\ syncOther.pc \in {"idle", "done"}
    /\ SyncBecomes(syncToGitHub(files, FALSE))
    /\ syncOther' = IF listeners >= 2 THEN syncToGitHub(files, FALSE) ELSE NoSync
    /\ op' = Operation("syncClick", Null, Null)
    /\ UNCHANGED <<files, activeFileId, markdownInput, ret, remote, http, loadVars,
                   pureVars, persistVars, configVars>>

ModalNext ==
    \/ ShowGitHubModal
    \/ SyncActivation
    \/ SyncRead
    \/ SyncWrite
    \/ OtherSyncRead
    \/ OtherSyncWrite

SpecModal == ModalInit /\ [][ModalNext]_vars

\* Invocations of syncToGitHub that the last click has started.
Started == (IF syncPc # "idle" THEN 1 ELSE 0) + (IF syncOther.pc # "idle" THEN 1 ELSE 0)

\* C29: a click on Sync starts one invocation of syncToGitHub, however many
\* times the modal has been opened before.
C29_OneActivationOneInvocation ==
    listeners >= 1 /\ op.name = "syncClick" => Started = 1

----------------------------------------------------------------------------
\* C30: in one invocation of syncToGitHub, with or without overwrite, no
\* path is written twice: a write the server accepts is never for a path
\* the invocation has written already, and no two entries of success have
\* the same path.
C30_EachPathWrittenOnce ==
    [][ /\ (op'.name = "syncWrite" /\ http'.response.status = "ok")
              => \A k \in 1..Len(results.success) :
                    results.success[k].path # syncFileName
        /\ \A j, k \in 1..Len(results'.success) :
              j # k => results'.success[j].path # results'.success[k].path
      ]_vars

====
